---- MODULE Spec2Model ----
(***************************************************************************)
(* Model of the Items API (FastAPI routes, request schemas, ItemService,   *)
(* validators, geo resolver, bearer-token dependency, event emitter).      *)
(*                                                                         *)
(* Representation of Python values, each a record tagged with its type:    *)
(*   str      a sequence of one-character strings                          *)
(*   list     a sequence of values                                         *)
(*   dict     a function from keys (untagged character sequences) to       *)
(*            values                                                       *)
(*   datetime a number of days; naive, or aware of its UTC offset          *)
(*   float    a number of 1/10000 degrees                                  *)
(*   None                                                                  *)
(***************************************************************************)
EXTENDS Integers, Sequences, FiniteSets, TLC

VARIABLES
    store,      \* the items collection: identifier -> document
    nextOid,    \* the number of identifiers the store has generated
    now,        \* the clock, in days
    req,        \* the request being answered
    resp,       \* its response
    emitted,    \* the events emitted while it was handled, in order
    lookups,    \* the postcodes sent to the lookup service meanwhile, in order
    before,     \* the items collection when the request arrived
    call,       \* a function of src/utils applied on its own: its arguments
    returned,   \* and what it returned
    tasks       \* the requests being handled side by side, each at its position

vars == <<store, nextOid, now, req, resp, emitted, lookups, before, call, returned,
          tasks>>

-----------------------------------------------------------------------------
(* Python values *)

None == [t |-> "none"]
Str(s) == [t |-> "str", str |-> s]
List(s) == [t |-> "list", list |-> s]
Dict(f) == [t |-> "dict", dict |-> f]
Date(d) == [t |-> "date", date |-> d]
\* a datetime parsed from a string that carries a UTC offset ("...Z")
DateAware(d) == [t |-> "date_aware", date |-> d]
Float(x) == [t |-> "float", float |-> x]

IsNone(x) == x.t = "none"

\* the empty dict: a function with the empty domain
EmptyMap == [k \in {} |-> None]

\* a dict from a set of <<key, value>> pairs with distinct keys
MkMap(pairs) ==
    [k \in {p[1] : p \in pairs} |-> (CHOOSE p \in pairs : p[1] = k)[2]]

\* d restricted to the keys in ks
Restrict(d, ks) == [k \in (DOMAIN d) \cap ks |-> d[k]]

\* a wins over b on the keys they share (dict update)
Merge(a, b) ==
    [k \in (DOMAIN a) \cup (DOMAIN b) |-> IF k \in DOMAIN a THEN a[k] ELSE b[k]]

Range(s) == {s[i] : i \in DOMAIN s}

\* Python "x in xs" for a list xs of values
PyIn(x, xs) == \E i \in DOMAIN xs.list : xs.list[i] = x

-----------------------------------------------------------------------------
(* Characters *)

UpperChars ==
    {"A","B","C","D","E","F","G","H","I","J","K","L","M",
     "N","O","P","Q","R","S","T","U","V","W","X","Y","Z"}

LowerOf ==
    [c \in UpperChars |->
        CASE c = "A" -> "a" [] c = "B" -> "b" [] c = "C" -> "c" [] c = "D" -> "d"
          [] c = "E" -> "e" [] c = "F" -> "f" [] c = "G" -> "g" [] c = "H" -> "h"
          [] c = "I" -> "i" [] c = "J" -> "j" [] c = "K" -> "k" [] c = "L" -> "l"
          [] c = "M" -> "m" [] c = "N" -> "n" [] c = "O" -> "o" [] c = "P" -> "p"
          [] c = "Q" -> "q" [] c = "R" -> "r" [] c = "S" -> "s" [] c = "T" -> "t"
          [] c = "U" -> "u" [] c = "V" -> "v" [] c = "W" -> "w" [] c = "X" -> "x"
          [] c = "Y" -> "y" [] c = "Z" -> "z"]

LowerChars == {LowerOf[c] : c \in UpperChars}

UpperOf == [c \in LowerChars |-> CHOOSE u \in UpperChars : LowerOf[u] = c]

Digits == {"0","1","2","3","4","5","6","7","8","9"}

IsUpper(c) == c \in UpperChars

\* str.lower() on one character, and on a string
CharLower(c) == IF c \in UpperChars THEN LowerOf[c] ELSE c
CharUpper(c) == IF c \in LowerChars THEN UpperOf[c] ELSE c
StrLower(s) == [i \in 1..Len(s) |-> CharLower(s[i])]

RECURSIVE Concat(_)
Concat(ss) == IF ss = <<>> THEN <<>> ELSE Head(ss) \o Concat(Tail(ss))

-----------------------------------------------------------------------------
(* src/utils/validators.py: key casing *)

RECURSIVE LStrip(_, _)
LStrip(s, c) == IF s # <<>> /\ Head(s) = c THEN LStrip(Tail(s), c) ELSE s

\* ''.join(['_' + c.lower() if c.isupper() else c for c in key]).lstrip('_')
SnakeKey(key) ==
    LStrip(Concat([i \in 1..Len(key) |->
                      IF IsUpper(key[i]) THEN <<"_", CharLower(key[i])>>
                                         ELSE <<key[i]>>]), "_")

\* key.split('_'): the pieces between underscores, empty pieces included
RECURSIVE SplitOn(_, _)
SplitOn(s, c) ==
    IF \A i \in 1..Len(s) : s[i] # c
    THEN <<s>>
    ELSE LET i == CHOOSE j \in 1..Len(s) :
                      s[j] = c /\ \A k \in 1..(j - 1) : s[k] # c
         IN  <<SubSeq(s, 1, i - 1)>> \o SplitOn(SubSeq(s, i + 1, Len(s)), c)

IsLetter(c) == c \in UpperChars \cup LowerChars

\* str.title(): a letter is upper-cased at the start and after a character
\* that is not a letter, lower-cased after a letter
Title(s) ==
    [i \in 1..Len(s) |->
        IF i = 1 \/ ~IsLetter(s[i - 1]) THEN CharUpper(s[i]) ELSE CharLower(s[i])]

\* components[0] + ''.join(x.title() for x in components[1:])
CamelKey(key) ==
    LET components == SplitOn(key, "_")
    IN  Head(components) \o
        Concat([i \in 1..(Len(components) - 1) |-> Title(components[i + 1])])

\* Python's "not x" for a value that is not a dict
Falsy(x) ==
    \/ x.t = "none"
    \/ x.t = "str" /\ x.str = <<>>
    \/ x.t = "list" /\ x.list = <<>>
    \/ x.t = "float" /\ x.float = 0

\* the AttributeError of data.items() on a value that is not a dict; it ends
\* the conversion, and is kept where it was raised
AttributeError == [t |-> "raise"]

\* the conversion that built value has raised
RECURSIVE Raised(_)
Raised(value) ==
    \/ value.t = "raise"
    \/ value.t = "dict" /\ \E k \in DOMAIN value.dict : Raised(value.dict[k])
    \/ value.t = "list" /\ \E i \in 1..Len(value.list) : Raised(value.list[i])

\* Both converters recurse into a dict, and into every element of a list
\* whose first element is a dict; an element that is not a dict is returned
\* as {} when it is falsy ("if not data: return {}") and raises otherwise.
RECURSIVE convert_keys_to_snake_case(_)
convert_keys_to_snake_case(data) ==
    IF DOMAIN data = {}
    THEN EmptyMap
    ELSE [k \in {SnakeKey(j) : j \in DOMAIN data} |->
            LET value == data[CHOOSE j \in DOMAIN data : SnakeKey(j) = k]
            IN  IF value.t = "dict"
                THEN Dict(convert_keys_to_snake_case(value.dict))
                ELSE IF value.t = "list" /\ value.list # <<>> /\ value.list[1].t = "dict"
                THEN List([i \in 1..Len(value.list) |->
                              LET item == value.list[i]
                              IN  IF item.t = "dict"
                                  THEN Dict(convert_keys_to_snake_case(item.dict))
                                  ELSE IF Falsy(item) THEN Dict(EmptyMap)
                                  ELSE AttributeError])
                ELSE value]

RECURSIVE convert_keys_to_camel_case(_)
convert_keys_to_camel_case(data) ==
    IF DOMAIN data = {}
    THEN EmptyMap
    ELSE [k \in {CamelKey(j) : j \in DOMAIN data} |->
            LET value == data[CHOOSE j \in DOMAIN data : CamelKey(j) = k]
            IN  IF value.t = "dict"
                THEN Dict(convert_keys_to_camel_case(value.dict))
                ELSE IF value.t = "list" /\ value.list # <<>> /\ value.list[1].t = "dict"
                THEN List([i \in 1..Len(value.list) |->
                              LET item == value.list[i]
                              IN  IF item.t = "dict"
                                  THEN Dict(convert_keys_to_camel_case(item.dict))
                                  ELSE IF Falsy(item) THEN Dict(EmptyMap)
                                  ELSE AttributeError])
                ELSE value]

-----------------------------------------------------------------------------
(* src/utils/validators.py: field checks *)

WEEK == 7
MAX_NAME == 50
MAX_TITLE == 100

AllDigits(s) == \A i \in 1..Len(s) : s[i] \in Digits

\* the body of US_POSTCODE_REGEX between ^ and $
PostcodeCore(s) ==
    \/ Len(s) = 5 /\ AllDigits(s)
    \/ /\ Len(s) = 10
       /\ AllDigits(SubSeq(s, 1, 5))
       /\ s[6] = "-"
       /\ AllDigits(SubSeq(s, 7, 10))

\* re.match(r"^\d{5}(-\d{4})?$", postcode): $ also matches before a final newline
validate_postcode(postcode) ==
    IF postcode.t # "str" \/ postcode.str = <<>>
    THEN FALSE
    ELSE \/ PostcodeCore(postcode.str)
         \/ /\ postcode.str[Len(postcode.str)] = "\n"
            /\ PostcodeCore(SubSeq(postcode.str, 1, Len(postcode.str) - 1))

validate_name_in_users(name, users) == PyIn(name, users)

\* start_date >= utcnow() + timedelta(weeks=1), at the moment t of the call
validate_start_date(start_date, t) == start_date.date >= t + WEEK

\* utcnow() is naive: its comparison with an aware start_date raises TypeError
validate_start_date_raises(start_date) == start_date.t = "date_aware"

K_name == <<"n","a","m","e">>
K_postcode == <<"p","o","s","t","c","o","d","e">>
K_title == <<"t","i","t","l","e">>
K_users == <<"u","s","e","r","s">>
K_startDate == <<"s","t","a","r","t","D","a","t","e">>
K_start_date == <<"s","t","a","r","t","_","d","a","t","e">>
K_latitude == <<"l","a","t","i","t","u","d","e">>
K_longitude == <<"l","o","n","g","i","t","u","d","e">>
K_directionFromNewYork ==
    <<"d","i","r","e","c","t","i","o","n","F","r","o","m","N","e","w","Y","o","r","k">>
K_direction_from_new_york ==
    <<"d","i","r","e","c","t","i","o","n","_","f","r","o","m","_","n","e","w","_",
      "y","o","r","k">>
K_id == <<"i","d">>
K_created_at == <<"c","r","e","a","t","e","d","_","a","t">>
K_updated_at == <<"u","p","d","a","t","e","d","_","a","t">>
K_createdAt == <<"c","r","e","a","t","e","d","A","t">>
K_updatedAt == <<"u","p","d","a","t","e","d","A","t">>
K_server == <<"s","e","r","v","e","r">>
K_underscore == <<"_">>

\* the key users[i] of a per-element error, i counted from 0
K_users_at(i) == <<"u","s","e","r","s","[", ToString(i), "]">>

\* a message: its words, and the value an f-string puts at its end
Msg(w) == [w |-> w, a |-> <<>>]
MsgArg(w, a) == [w |-> w, a |-> a]

\* Python's  "not found" in message
HasNotFound(m) ==
    \E i \in 1..(Len(m.w) - 1) : m.w[i] = "not" /\ m.w[i + 1] = "found"

M_NameRequired == Msg(<<"Name", "is", "required">>)
M_NameTooLong == Msg(<<"Name", "must", "be", "less", "than", "50", "characters">>)
M_PostcodeRequired == Msg(<<"Postcode", "is", "required">>)
M_PostcodeFormat == Msg(<<"Invalid", "US", "postcode", "format">>)
M_UsersRequired == Msg(<<"Users", "list", "is", "required">>)
M_UsersNotList == Msg(<<"Users", "must", "be", "a", "list">>)
M_UserTooLong(user) == MsgArg(<<"User", "name", "exceeds", "50", "characters">>, user)
M_StartRequired == Msg(<<"Start", "date", "is", "required">>)
M_StartTooEarly ==
    Msg(<<"Start", "date", "must", "be", "at", "least", "1", "week", "after",
          "the", "item", "creation", "date">>)
M_NameNotInUsers ==
    Msg(<<"Name", "must", "be", "included", "in", "the", "users", "list">>)
M_TitleTooLong ==
    Msg(<<"Title", "must", "be", "less", "than", "100", "characters">>)

\* the error mapping built by validate_item_data, at the moment t of the call
validate_item_data_errors(data, t) ==
    LET nameErr ==
            IF K_name \notin DOMAIN data THEN {<<K_name, M_NameRequired>>}
            ELSE IF Len(data[K_name].str) > MAX_NAME THEN {<<K_name, M_NameTooLong>>}
            ELSE {}
        postcodeErr ==
            IF K_postcode \notin DOMAIN data THEN {<<K_postcode, M_PostcodeRequired>>}
            ELSE IF ~validate_postcode(data[K_postcode])
                 THEN {<<K_postcode, M_PostcodeFormat>>}
            ELSE {}
        usersErr ==
            IF K_users \notin DOMAIN data THEN {<<K_users, M_UsersRequired>>}
            ELSE IF data[K_users].t # "list" THEN {<<K_users, M_UsersNotList>>}
            ELSE {<<K_users_at(i - 1), M_UserTooLong(data[K_users].list[i].str)>> :
                    i \in {j \in 1..Len(data[K_users].list) :
                             Len(data[K_users].list[j].str) > MAX_NAME}}
        startErr ==
            IF K_start_date \notin DOMAIN data THEN {<<K_start_date, M_StartRequired>>}
            ELSE IF ~validate_start_date(data[K_start_date], t)
                 THEN {<<K_start_date, M_StartTooEarly>>}
            ELSE {}
        \* assigned after the name-length check: it overwrites errors["name"]
        memberErr ==
            IF /\ K_name \in DOMAIN data
               /\ K_users \in DOMAIN data
               /\ data[K_users].t = "list"
               /\ ~validate_name_in_users(data[K_name], data[K_users])
            THEN {<<K_name, M_NameNotInUsers>>}
            ELSE {}
        titleErr ==
            IF /\ K_title \in DOMAIN data
               /\ ~IsNone(data[K_title])
               /\ Len(data[K_title].str) > MAX_TITLE
            THEN {<<K_title, M_TitleTooLong>>}
            ELSE {}
        first == nameErr \cup postcodeErr \cup usersErr \cup startErr \cup titleErr
    IN  Merge(MkMap(memberErr), MkMap(first))

\* validate_item_data returning at the first violated check, the one of name
validate_item_data_ShortCircuit(data, t) ==
    LET errors == validate_item_data_errors(data, t)
        first == IF K_name \in DOMAIN errors THEN Restrict(errors, {K_name})
                 ELSE errors
    IN  [ok |-> DOMAIN first = {}, errors |-> first]

\* validate_item_data returns (len(errors) == 0, errors)
validate_item_data(data, t) ==
    LET errors == validate_item_data_errors(data, t)
    IN  [ok |-> DOMAIN errors = {}, errors |-> errors]

-----------------------------------------------------------------------------
(* src/config.py, src/utils/geo.py *)

\* 40.7128 and -74.0060 in units of 1/10000 degree
NY_LATITUDE == 407128
NY_LONGITUDE == 0 - 740060

\* fetch_zipcode_data without the check of the status code
fetch_zipcode_data_AnyStatus(answer) ==
    IF answer.kind = "raise" THEN None
    ELSE IF answer.places = <<>> THEN None
    ELSE IF IsNone(answer.places[1].latitude) \/ IsNone(answer.places[1].longitude)
    THEN None
    ELSE [t |-> "loc",
          latitude |-> answer.places[1].latitude.float,
          longitude |-> answer.places[1].longitude.float]

\* The answer of the lookup service: kind "raise" (the call fails), or a
\* response with a status code and the places of its JSON body.
\* fetch_zipcode_data returns None, or the coordinates of the first place.
fetch_zipcode_data(answer) ==
    IF answer.kind = "raise" THEN None
    ELSE IF answer.status # 200 THEN None
    ELSE IF answer.places = <<>> THEN None
    \* float(place.get("latitude")) raises on a missing coordinate
    ELSE IF IsNone(answer.places[1].latitude) \/ IsNone(answer.places[1].longitude)
    THEN None
    ELSE [t |-> "loc",
          latitude |-> answer.places[1].latitude.float,
          longitude |-> answer.places[1].longitude.float]

\* calculate_direction resolving a longitude tie to the west
calculate_direction_TieWest(lat, lon) ==
    LET ns == IF lat >= NY_LATITUDE THEN "N" ELSE "S"
        ew == IF lon > NY_LONGITUDE THEN "E" ELSE "W"
    IN  <<ns, ew>>

\* calculate_direction with strict comparisons
calculate_direction_Strict(lat, lon) ==
    LET ns == IF lat > NY_LATITUDE THEN "N" ELSE "S"
        ew == IF lon > NY_LONGITUDE THEN "E" ELSE "W"
    IN  <<ns, ew>>

calculate_direction(lat, lon) ==
    LET ns == IF lat >= NY_LATITUDE THEN "N" ELSE "S"
        ew == IF lon >= NY_LONGITUDE THEN "E" ELSE "W"
    IN  <<ns, ew>>

-----------------------------------------------------------------------------
(* src/auth/middleware.py *)

\* auth_header.split(): the maximal runs of non-blank characters
RECURSIVE PySplit(_)
PySplit(s) ==
    LET t == LStrip(s, " ")
    IN  IF t = <<>>
        THEN <<>>
        ELSE LET n == IF \A i \in 1..Len(t) : t[i] # " "
                      THEN Len(t)
                      ELSE (CHOOSE j \in 1..Len(t) :
                                t[j] = " " /\ \A k \in 1..(j - 1) : t[k] # " ") - 1
             IN  <<SubSeq(t, 1, n)>> \o PySplit(SubSeq(t, n + 1, Len(t)))

S_bearer == <<"b","e","a","r","e","r">>

\* AuthMiddleware.__call__ without the check of the scheme
AuthMiddleware_AnyScheme(auth_header) ==
    IF IsNone(auth_header) \/ auth_header.str = <<>>
    THEN "missing"
    ELSE LET parts == PySplit(auth_header.str)
         IN  IF Len(parts) # 2
             THEN "format"
             ELSE IF parts[2] = <<>> THEN "empty" ELSE "ok"

\* AuthMiddleware.__call__: "ok", or the reason of the 401
AuthMiddleware(auth_header) ==
    IF IsNone(auth_header) \/ auth_header.str = <<>>
    THEN "missing"
    ELSE LET parts == PySplit(auth_header.str)
         IN  IF Len(parts) # 2 \/ StrLower(parts[1]) # S_bearer
             THEN "format"
             ELSE IF parts[2] = <<>> THEN "empty" ELSE "ok"

-----------------------------------------------------------------------------
(* bson.ObjectId, src/db/models/items.py, src/events.py *)

HexChars == Digits \cup {"a","b","c","d","e","f","A","B","C","D","E","F"}

OID_LEN == 24

\* ObjectId.is_valid on a path parameter: 24 hexadecimal characters
ObjectIdIsValid(item_id) ==
    Len(item_id) = OID_LEN /\ \A i \in 1..Len(item_id) : item_id[i] \in HexChars

\* the n-th identifier the store generates
Oid(n) == [i \in 1..OID_LEN |-> IF i = OID_LEN THEN ToString(n) ELSE "0"]

\* Item(**data): the document's fields, None where data has no such key
Item(data) ==
    LET f(k) == IF k \in DOMAIN data THEN data[k] ELSE None
    IN  [name |-> f(K_name),
         postcode |-> f(K_postcode),
         latitude |-> f(K_latitude),
         longitude |-> f(K_longitude),
         direction_from_new_york |-> f(K_direction_from_new_york),
         title |-> f(K_title),
         users |-> f(K_users),
         start_date |-> f(K_start_date),
         created_at |-> f(K_created_at),
         updated_at |-> f(K_updated_at)]

\* Item.save of a document without id: both timestamps are set, the store
\* assigns the n-th identifier
SaveNew(st, item, n, t) ==
    [k \in (DOMAIN st) \cup {Oid(n)} |->
        IF k = Oid(n)
        THEN [item EXCEPT !.created_at = Date(t), !.updated_at = Date(t)]
        ELSE st[k]]

\* Item.objects(id=item_id).first(): the document, or None
First(st, item_id) == IF item_id \in DOMAIN st THEN st[item_id] ELSE None

\* what loading a document without fields gives: None, and [] for the list
Blank ==
    [name |-> None, postcode |-> None, latitude |-> None, longitude |-> None,
     direction_from_new_york |-> None, title |-> None, users |-> List(<<>>),
     start_date |-> None, created_at |-> None, updated_at |-> None]

\* the document under item_id after the driver has set the fields in changed
\* to those of item: the update is an upsert, so that a document that is no
\* longer stored comes back with the changed fields only
Upsert(st, item_id, item, changed) ==
    LET base == IF item_id \in DOMAIN st THEN st[item_id] ELSE Blank
    IN  [k \in (DOMAIN st) \cup {item_id} |->
            IF k = item_id
            THEN [f \in DOMAIN item |-> IF f \in changed THEN item[f] ELSE base[f]]
            ELSE st[k]]

\* Item.save setting created_at whether or not the document has an id
SaveExisting_Recreated(st, item_id, read, item, t) ==
    LET new == [item EXCEPT !.created_at = Date(t), !.updated_at = Date(t)]
    IN  Upsert(st, item_id, new,
               {f \in DOMAIN item : item[f] # read[f]} \cup {"created_at", "updated_at"})

\* Item.save of the document item that was loaded as read: updated_at is
\* refreshed, and the fields that differ from what was loaded are written
SaveExisting(st, item_id, read, item, t) ==
    LET new == [item EXCEPT !.updated_at = Date(t)]
    IN  Upsert(st, item_id, new,
               {f \in DOMAIN item : item[f] # read[f]} \cup {"updated_at"})

\* item.delete()
Delete(st, item_id) == [k \in (DOMAIN st) \ {item_id} |-> st[k]]

\* Item.to_dict
to_dict(item_id, item) ==
    MkMap({<<K_id, Str(item_id)>>,
           <<K_name, item.name>>,
           <<K_postcode, item.postcode>>,
           <<K_latitude, item.latitude>>,
           <<K_longitude, item.longitude>>,
           <<K_direction_from_new_york, item.direction_from_new_york>>,
           <<K_title, item.title>>,
           <<K_users, item.users>>,
           <<K_start_date, item.start_date>>,
           <<K_created_at, item.created_at>>,
           <<K_updated_at, item.updated_at>>})

\* Item.objects.all(): the stored identifiers in the order they were generated
RECURSIVE StoredIds(_, _)
StoredIds(st, n) ==
    IF n = 0 THEN <<>>
    ELSE StoredIds(st, n - 1) \o (IF Oid(n) \in DOMAIN st THEN <<Oid(n)>> ELSE <<>>)

\* emit_event: the registered listeners only log. The event is recorded with
\* what the store st holds for the item at the moment it is emitted.
Event(name, item_id, st) ==
    [name |-> name, item_id |-> item_id,
     seen |-> IF item_id \in DOMAIN st THEN st[item_id] ELSE None]

\* An exception of the storage backend: whether one is raised, and the words
\* of str(e)
NoFault == [raises |-> FALSE, words |-> <<>>]

\* a listener registered for the event raises when emitter.emit calls it
EmitRaises(fault) == "listener" \in DOMAIN fault /\ fault.listener

M_Internal(fault) == Msg(<<"Internal", "error:">> \o fault.words)

-----------------------------------------------------------------------------
(* src/routers/items/service.py *)

M_InvalidPostcode == Msg(<<"Invalid", "or", "unrecognized", "postcode">>)
M_InvalidId == Msg(<<"Invalid", "item", "ID", "format">>)
M_ItemNotFound == Msg(<<"Item", "not", "found">>)
M_UsersMustInclude ==
    Msg(<<"Users", "list", "must", "include", "the", "item", "name">>)
M_StartTooEarlyUpdate ==
    Msg(<<"Start", "date", "must", "be", "at", "least", "1", "week", "after",
          "creation", "date">>)

OneError(key, msg) == Dict(MkMap({<<key, msg>>}))

\* The result of a service call: what it returns, and the store, the number
\* of identifiers generated, the events emitted and the lookups made when it
\* returns.
Outcome(ret, st, n, events) ==
    [ret |-> ret, store |-> st, nextOid |-> n, events |-> events, lookups |-> <<>>]

\* the same after the calls of fetch_zipcode_data for the postcodes asked
Looked(asked, outcome) == [outcome EXCEPT !.lookups = asked]

\* ItemService.create_item asking the lookup service again after a lookup
\* that resolved nothing
create_item_Retry(data, answer, fault, st, n, t) ==
    LET snake_data == convert_keys_to_snake_case(data)
        valid == validate_item_data(snake_data, t)
        location_data == fetch_zipcode_data(answer)
        located ==
            Merge(MkMap({<<K_latitude, Float(location_data.latitude)>>,
                         <<K_longitude, Float(location_data.longitude)>>,
                         <<K_direction_from_new_york,
                           Str(calculate_direction(location_data.latitude,
                                                   location_data.longitude))>>}),
                  snake_data)
        asked == <<snake_data[K_postcode]>>
    IN  IF ~valid.ok
        THEN Outcome([item_id |-> None, errors |-> Dict(valid.errors)], st, n, <<>>)
        ELSE IF IsNone(location_data)
        THEN Looked(asked \o asked,
                    Outcome([item_id |-> None,
                             errors |-> OneError(K_postcode, M_InvalidPostcode)],
                            st, n, <<>>))
        ELSE IF fault.raises
        THEN Looked(asked,
                    Outcome([item_id |-> None,
                             errors |-> OneError(K_server, M_Internal(fault))],
                            st, n, <<>>))
        ELSE LET saved == SaveNew(st, Item(located), n + 1, t)
             IN  IF EmitRaises(fault)
                 THEN Looked(asked,
                             Outcome([item_id |-> None,
                                      errors |-> OneError(K_server, M_Internal(fault))],
                                     saved, n + 1,
                                     <<Event("item_created", Oid(n + 1), saved)>>))
                 ELSE Looked(asked,
                             Outcome([item_id |-> Str(Oid(n + 1)), errors |-> None],
                                     saved, n + 1,
                                     <<Event("item_created", Oid(n + 1), saved)>>))

\* ItemService.create_item; answer is what the lookup service answers when
\* it is asked, fault what the storage backend does when it is reached, or
\* what a listener of item_created does when it is called
create_item(data, answer, fault, st, n, t) ==
    LET snake_data == convert_keys_to_snake_case(data)
        valid == validate_item_data(snake_data, t)
        location_data == fetch_zipcode_data(answer)
        located ==
            Merge(MkMap({<<K_latitude, Float(location_data.latitude)>>,
                         <<K_longitude, Float(location_data.longitude)>>,
                         <<K_direction_from_new_york,
                           Str(calculate_direction(location_data.latitude,
                                                   location_data.longitude))>>}),
                  snake_data)
        asked == <<snake_data[K_postcode]>>
    IN  IF ~valid.ok
        THEN Outcome([item_id |-> None, errors |-> Dict(valid.errors)], st, n, <<>>)
        ELSE IF IsNone(location_data)
        THEN Looked(asked,
                    Outcome([item_id |-> None,
                             errors |-> OneError(K_postcode, M_InvalidPostcode)],
                            st, n, <<>>))
        ELSE IF fault.raises
        THEN Looked(asked,
                    Outcome([item_id |-> None,
                             errors |-> OneError(K_server, M_Internal(fault))],
                            st, n, <<>>))
        ELSE LET saved == SaveNew(st, Item(located), n + 1, t)
             IN  IF EmitRaises(fault)
                 THEN Looked(asked,
                             Outcome([item_id |-> None,
                                      errors |-> OneError(K_server, M_Internal(fault))],
                                     saved, n + 1,
                                     <<Event("item_created", Oid(n + 1), saved)>>))
                 ELSE Looked(asked,
                             Outcome([item_id |-> Str(Oid(n + 1)), errors |-> None],
                                     saved, n + 1,
                                     <<Event("item_created", Oid(n + 1), saved)>>))

\* ItemService.get_all_items
get_all_items(fault, st, n) ==
    IF fault.raises
    THEN List(<<>>)
    ELSE LET ids == StoredIds(st, n)
         IN  List([i \in 1..Len(ids) |->
                      Dict(convert_keys_to_camel_case(to_dict(ids[i], st[ids[i]])))])

\* ItemService.get_item_by_id
get_item_by_id(item_id, fault, st) ==
    IF ~ObjectIdIsValid(item_id) THEN None
    ELSE IF fault.raises THEN None
    ELSE IF item_id \notin DOMAIN st THEN None
    ELSE Dict(convert_keys_to_camel_case(to_dict(item_id, st[item_id])))

mutable_fields == {K_name, K_title, K_users, K_start_date}

\* the name/users rule without its third case (only users updated)
NameUsersRule_NoUsersOnly(update_data, item) ==
    IF K_name \in DOMAIN update_data /\ K_users \notin DOMAIN update_data
    THEN IF ~PyIn(update_data[K_name], item.users)
         THEN OneError(K_name, M_NameNotInUsers)
         ELSE None
    ELSE IF K_name \in DOMAIN update_data /\ K_users \in DOMAIN update_data
    THEN IF ~PyIn(update_data[K_name], update_data[K_users])
         THEN OneError(K_name, M_NameNotInUsers)
         ELSE None
    ELSE None

\* the name/users rule of update_item: None, or the error it returns
NameUsersRule(update_data, item) ==
    IF K_name \in DOMAIN update_data /\ K_users \notin DOMAIN update_data
    THEN IF ~PyIn(update_data[K_name], item.users)
         THEN OneError(K_name, M_NameNotInUsers)
         ELSE None
    ELSE IF K_name \in DOMAIN update_data /\ K_users \in DOMAIN update_data
    THEN IF ~PyIn(update_data[K_name], update_data[K_users])
         THEN OneError(K_name, M_NameNotInUsers)
         ELSE None
    ELSE IF K_users \in DOMAIN update_data /\ K_name \notin DOMAIN update_data
    THEN IF ~PyIn(item.name, update_data[K_users])
         THEN OneError(K_users, M_UsersMustInclude)
         ELSE None
    ELSE None

\* setattr(item, field, value) for every field of update_data
Apply(item, update_data) ==
    LET g(k, old) == IF k \in DOMAIN update_data THEN update_data[k] ELSE old
    IN  [item EXCEPT !.name = g(K_name, @),
                     !.title = g(K_title, @),
                     !.users = g(K_users, @),
                     !.start_date = g(K_start_date, @)]

\* ItemService.update_item setting and saving, before it reports that a field
\* was refused, the fields that were not
update_item_read_SaveAccepted(item_id, item, data, fault, st, n, t) ==
    LET snake_data == convert_keys_to_snake_case(data)
        fail(errors) == Outcome([success |-> FALSE, errors |-> errors], st, n, <<>>)
    IN  IF ~ObjectIdIsValid(item_id) THEN fail(OneError(K_id, M_InvalidId))
        ELSE IF fault.raises THEN fail(OneError(K_server, M_Internal(fault)))
        ELSE IF item = None THEN fail(OneError(K_id, M_ItemNotFound))
        ELSE
            LET update_data == Restrict(snake_data, mutable_fields)
                rule == NameUsersRule(update_data, item)
                accepted(errors) ==
                    Restrict(update_data, DOMAIN update_data \ DOMAIN errors.dict)
                partly(errors) ==
                    Outcome([success |-> FALSE, errors |-> errors],
                            SaveExisting(st, item_id, item,
                                         Apply(item, accepted(errors)), t),
                            n, <<>>)
            IN  IF ~IsNone(rule) THEN partly(rule)
                ELSE IF /\ K_start_date \in DOMAIN update_data
                        /\ ~validate_start_date(update_data[K_start_date], t)
                THEN partly(OneError(K_start_date, M_StartTooEarlyUpdate))
                ELSE LET saved == SaveExisting(st, item_id, item,
                                               Apply(item, update_data), t)
                     IN  Outcome([success |-> TRUE, errors |-> None],
                                 saved, n, <<Event("item_updated", item_id, saved)>>)

\* ItemService.update_item from the point where first() has returned item;
\* st is the store at the moment of the save
update_item_read(item_id, item, data, fault, st, n, t) ==
    LET snake_data == convert_keys_to_snake_case(data)
        fail(errors) == Outcome([success |-> FALSE, errors |-> errors], st, n, <<>>)
    IN  IF ~ObjectIdIsValid(item_id) THEN fail(OneError(K_id, M_InvalidId))
        ELSE IF fault.raises THEN fail(OneError(K_server, M_Internal(fault)))
        ELSE IF item = None THEN fail(OneError(K_id, M_ItemNotFound))
        ELSE
            LET update_data == Restrict(snake_data, mutable_fields)
                rule == NameUsersRule(update_data, item)
            IN  IF ~IsNone(rule) THEN fail(rule)
                ELSE IF /\ K_start_date \in DOMAIN update_data
                        /\ ~validate_start_date(update_data[K_start_date], t)
                THEN fail(OneError(K_start_date, M_StartTooEarlyUpdate))
                ELSE LET saved == SaveExisting(st, item_id, item,
                                               Apply(item, update_data), t)
                     IN  Outcome([success |-> TRUE, errors |-> None],
                                 saved, n, <<Event("item_updated", item_id, saved)>>)

\* ItemService.update_item
update_item(item_id, data, fault, st, n, t) ==
    update_item_read(item_id, First(st, item_id), data, fault, st, n, t)

\* ItemService.delete_item emitting item_deleted before it looks for the item
delete_item_EmitFirst(item_id, fault, st, n) ==
    LET events == <<Event("item_deleted", item_id, st)>>
        fail(error) == Outcome([success |-> FALSE, error |-> error], st, n, events)
    IN  IF ~ObjectIdIsValid(item_id) THEN fail(M_InvalidId)
        ELSE IF fault.raises THEN fail(M_Internal(fault))
        ELSE IF item_id \notin DOMAIN st THEN fail(M_ItemNotFound)
        ELSE Outcome([success |-> TRUE, error |-> None],
                     Delete(st, item_id), n, events)

\* ItemService.delete_item from the point where first() has returned item;
\* st is the store at the moment of item.delete()
delete_item_read(item_id, item, fault, st, n) ==
    LET fail(error) == Outcome([success |-> FALSE, error |-> error], st, n, <<>>)
    IN  IF ~ObjectIdIsValid(item_id) THEN fail(M_InvalidId)
        ELSE IF fault.raises THEN fail(M_Internal(fault))
        ELSE IF item = None THEN fail(M_ItemNotFound)
        ELSE LET deleted == Delete(st, item_id)
             IN  Outcome([success |-> TRUE, error |-> None],
                         deleted, n, <<Event("item_deleted", item_id, deleted)>>)

\* ItemService.delete_item
delete_item(item_id, fault, st, n) ==
    delete_item_read(item_id, First(st, item_id), fault, st, n)

-----------------------------------------------------------------------------
(* src/routers/items/schemas.py: the request bodies as FastAPI parses them *)

\* where a schema error is located: a field, or the body as a whole
LOC_BODY == <<>>

IsStr(x) == x.t = "str"
IsStrList(x) == x.t = "list" /\ \A i \in 1..Len(x.list) : IsStr(x.list[i])

IsDate(x) == x.t \in {"date", "date_aware"}

Given(body, k) == k \in DOMAIN body /\ ~IsNone(body[k])

\* start_date_must_be_valid lets the TypeError of validate_start_date through:
\* pydantic turns only ValueError and AssertionError into located errors
StartDateValidatorRaises(body) ==
    /\ Given(body, K_startDate)
    /\ IsDate(body[K_startDate])
    /\ validate_start_date_raises(body[K_startDate])

\* ItemCreate: the located errors of the field validators, then of the model
\* validator, whether a validator raises something else, and model_dump() of
\* the parsed body
ItemCreate(body, t) ==
    LET nameErr ==
            IF ~Given(body, K_name) \/ ~IsStr(body[K_name]) THEN {K_name}
            ELSE IF Len(body[K_name].str) > MAX_NAME THEN {K_name}
            ELSE {}
        postcodeErr ==
            IF ~Given(body, K_postcode) \/ ~IsStr(body[K_postcode]) THEN {K_postcode}
            ELSE IF ~validate_postcode(body[K_postcode]) THEN {K_postcode}
            ELSE {}
        titleErr ==
            IF ~Given(body, K_title) THEN {}
            ELSE IF ~IsStr(body[K_title]) THEN {K_title}
            ELSE IF Len(body[K_title].str) > MAX_TITLE THEN {K_title}
            ELSE {}
        usersErr ==
            IF ~Given(body, K_users) \/ ~IsStrList(body[K_users]) THEN {K_users}
            ELSE IF \E i \in 1..Len(body[K_users].list) :
                        Len(body[K_users].list[i].str) > MAX_NAME
                 THEN {K_users}
            ELSE {}
        startErr ==
            IF ~Given(body, K_startDate) \/ ~IsDate(body[K_startDate])
            THEN {K_startDate}
            ELSE IF ~validate_start_date(body[K_startDate], t) THEN {K_startDate}
            ELSE {}
        fieldErrs == nameErr \cup postcodeErr \cup titleErr \cup usersErr \cup startErr
        modelErrs ==
            IF fieldErrs = {} /\ ~PyIn(body[K_name], body[K_users])
            THEN {LOC_BODY}
            ELSE {}
        f(k) == IF k \in DOMAIN body THEN body[k] ELSE None
    IN  [errors |-> fieldErrs \cup modelErrs,
         raises |-> StartDateValidatorRaises(body),
         dump |-> MkMap({<<K_name, f(K_name)>>,
                         <<K_postcode, f(K_postcode)>>,
                         <<K_title, f(K_title)>>,
                         <<K_users, f(K_users)>>,
                         <<K_startDate, f(K_startDate)>>})]

\* ItemUpdate: every field optional
ItemUpdate(body, t) ==
    LET nameErr ==
            IF ~Given(body, K_name) THEN {}
            ELSE IF ~IsStr(body[K_name]) THEN {K_name}
            ELSE IF Len(body[K_name].str) > MAX_NAME THEN {K_name}
            ELSE {}
        titleErr ==
            IF ~Given(body, K_title) THEN {}
            ELSE IF ~IsStr(body[K_title]) THEN {K_title}
            ELSE IF Len(body[K_title].str) > MAX_TITLE THEN {K_title}
            ELSE {}
        usersErr ==
            IF ~Given(body, K_users) THEN {}
            ELSE IF ~IsStrList(body[K_users]) THEN {K_users}
            ELSE IF \E i \in 1..Len(body[K_users].list) :
                        Len(body[K_users].list[i].str) > MAX_NAME
                 THEN {K_users}
            ELSE {}
        startErr ==
            IF ~Given(body, K_startDate) THEN {}
            ELSE IF ~IsDate(body[K_startDate]) THEN {K_startDate}
            ELSE IF ~validate_start_date(body[K_startDate], t) THEN {K_startDate}
            ELSE {}
        fieldErrs == nameErr \cup titleErr \cup usersErr \cup startErr
        modelErrs ==
            IF /\ fieldErrs = {}
               /\ Given(body, K_name)
               /\ Given(body, K_users)
               /\ ~PyIn(body[K_name], body[K_users])
            THEN {LOC_BODY}
            ELSE {}
        f(k) == IF k \in DOMAIN body THEN body[k] ELSE None
    IN  [errors |-> fieldErrs \cup modelErrs,
         raises |-> StartDateValidatorRaises(body),
         dump |-> MkMap({<<K_name, f(K_name)>>,
                         <<K_title, f(K_title)>>,
                         <<K_users, f(K_users)>>,
                         <<K_startDate, f(K_startDate)>>})]

-----------------------------------------------------------------------------
(* src/routers/items/routes.py, src/auth/dependencies.py *)

M_AuthMissing == Msg(<<"Missing", "Authorization", "header">>)
M_AuthFormat ==
    Msg(<<"Invalid", "Authorization", "header", "format.", "Use", "'Bearer",
          "your_token'">>)
M_AuthEmpty == Msg(<<"Empty", "token", "provided">>)
M_NotFoundWithId(item_id) ==
    MsgArg(<<"Item", "not", "found", "with", "ID:">>, item_id)
M_NoValidFields == Msg(<<"No", "valid", "fields", "to", "update">>)
M_FailedToDelete(error) ==
    MsgArg(<<"Failed", "to", "delete", "item:">> \o error.w, error.a)
M_Updated == Msg(<<"Item", "updated", "successfully">>)
M_Deleted == Msg(<<"Item", "deleted", "successfully">>)

K_message == <<"m","e","s","s","a","g","e">>

MsgDetail(m) == [t |-> "msg", msg |-> m]
SchemaDetail(locs) == [t |-> "schema", locs |-> locs]

Response(status, detail, body) == [status |-> status, detail |-> detail, body |-> body]

\* what a request leaves behind: the response, and the state of the service
Handled(response, st, n, events) ==
    [resp |-> response, store |-> st, nextOid |-> n, events |-> events,
     lookups |-> <<>>]

\* the router's dependency "authenticated" lets the request through
Authenticated(auth_header) == AuthMiddleware(auth_header) = "ok"

\* the HTTPException it raises otherwise
Unauthorized(auth_header) ==
    LET a == AuthMiddleware(auth_header)
    IN  Response(401,
                 MsgDetail(CASE a = "missing" -> M_AuthMissing
                             [] a = "format" -> M_AuthFormat
                             [] OTHER -> M_AuthEmpty),
                 None)

\* FastAPI's answer to a body the schema rejects
Unprocessable(locs) == Response(422, SchemaDetail(locs), None)

M_InternalServerError == Msg(<<"Internal", "server", "error">>)

\* global_exception_handler: the answer to an exception nothing else handles
ServerError == Response(500, MsgDetail(M_InternalServerError), None)

\* POST /items
route_create_item(body, answer, fault, st, n, t) ==
    LET item == ItemCreate(body, t)
        out == create_item(item.dump, answer, fault, st, n, t)
    IN  IF item.raises
        THEN Handled(ServerError, st, n, <<>>)
        ELSE IF item.errors # {}
        THEN Handled(Unprocessable(item.errors), st, n, <<>>)
        ELSE IF ~IsNone(out.ret.errors)
        THEN Looked(out.lookups,
                    Handled(Response(400, out.ret.errors, None),
                            out.store, out.nextOid, out.events))
        ELSE Looked(out.lookups,
                    Handled(Response(201, None, Dict(MkMap({<<K_id, out.ret.item_id>>}))),
                            out.store, out.nextOid, out.events))

\* GET /items
route_get_items(fault, st, n) ==
    Handled(Response(200, None, get_all_items(fault, st, n)), st, n, <<>>)

\* GET /items/{item_id} answering a malformed identifier with a format error
route_get_item_FormatError(item_id, fault, st, n) ==
    LET item == get_item_by_id(item_id, fault, st)
    IN  IF ~ObjectIdIsValid(item_id)
        THEN Handled(Response(400, OneError(K_id, M_InvalidId), None), st, n, <<>>)
        ELSE IF IsNone(item)
        THEN Handled(Response(404, MsgDetail(M_NotFoundWithId(item_id)), None),
                     st, n, <<>>)
        ELSE Handled(Response(200, None, item), st, n, <<>>)

\* GET /items/{item_id}
route_get_item(item_id, fault, st, n) ==
    LET item == get_item_by_id(item_id, fault, st)
    IN  IF IsNone(item)
        THEN Handled(Response(404, MsgDetail(M_NotFoundWithId(item_id)), None),
                     st, n, <<>>)
        ELSE Handled(Response(200, None, item), st, n, <<>>)

\* the fields of the dump without a filter on None
UpdateData_KeepNone(dump) == dump

\* {k: v for k, v in item.model_dump().items() if v is not None}
UpdateData(dump) == Restrict(dump, {k \in DOMAIN dump : ~IsNone(dump[k])})

\* PATCH /items/{item_id}, out being what ItemService.update_item returns
route_update_item_answer(item_id, body, out, st, n, t) ==
    LET item == ItemUpdate(body, t)
        update_data == UpdateData(item.dump)
    IN  IF item.raises
        THEN Handled(ServerError, st, n, <<>>)
        ELSE IF item.errors # {}
        THEN Handled(Unprocessable(item.errors), st, n, <<>>)
        ELSE IF DOMAIN update_data = {}
        THEN Handled(Response(400, OneError(K_underscore, M_NoValidFields), None),
                     st, n, <<>>)
        ELSE Looked(out.lookups,
             IF ~out.ret.success
             THEN IF /\ K_id \in DOMAIN out.ret.errors.dict
                     /\ HasNotFound(out.ret.errors.dict[K_id])
                  THEN Handled(Response(404, MsgDetail(M_NotFoundWithId(item_id)), None),
                               out.store, out.nextOid, out.events)
                  ELSE Handled(Response(400, out.ret.errors, None),
                               out.store, out.nextOid, out.events)
             ELSE Handled(Response(200, None, Dict(MkMap({<<K_message, M_Updated>>}))),
                          out.store, out.nextOid, out.events))

\* PATCH /items/{item_id}
route_update_item(item_id, body, fault, st, n, t) ==
    route_update_item_answer(
        item_id, body,
        update_item(item_id, UpdateData(ItemUpdate(body, t).dump), fault, st, n, t),
        st, n, t)

\* DELETE /items/{item_id}, out being what ItemService.delete_item returns
route_delete_item_answer(item_id, out) ==
    Looked(out.lookups,
        IF ~out.ret.success
        THEN IF HasNotFound(out.ret.error)
             THEN Handled(Response(404, MsgDetail(M_NotFoundWithId(item_id)), None),
                          out.store, out.nextOid, out.events)
             ELSE Handled(Response(500, MsgDetail(M_FailedToDelete(out.ret.error)),
                                   None),
                          out.store, out.nextOid, out.events)
        ELSE Handled(Response(200, None, Dict(MkMap({<<K_message, M_Deleted>>}))),
                     out.store, out.nextOid, out.events))

\* DELETE /items/{item_id}
route_delete_item(item_id, fault, st, n) ==
    route_delete_item_answer(item_id, delete_item(item_id, fault, st, n))

-----------------------------------------------------------------------------
(* Bounds and the requests of the environment *)

\* identifiers the store may generate
MaxIds == 2

N_A == Str(<<"A">>)
N_B == Str(<<"B">>)
U_A == List(<<N_A>>)
U_AB == List(<<N_A, N_B>>)
T_1 == Str(<<"T", "1">>)
P_NY == Str(<<"1", "0", "0", "0", "1">>)
P_Short == Str(<<"1", "2", "3">>)

\* Authorization headers: absent, empty, "Bearer ", a wrong scheme, a lone
\* token, three parts; two well-formed ones; one with the scheme in lower case
H_None == None
H_Empty == Str(<<>>)
H_BearerOnly == Str(<<"B","e","a","r","e","r"," ">>)
H_Basic == Str(<<"B","a","s","i","c"," ","t">>)
H_Lone == Str(<<"t">>)
H_Three == Str(<<"B","e","a","r","e","r"," ","t"," ","u">>)
H_Bearer == Str(<<"B","e","a","r","e","r"," ","t">>)
H_Bearer2 == Str(<<"B","e","a","r","e","r"," "," ","u","v">>)
H_Lower == Str(<<"b","e","a","r","e","r"," ","t">>)

\* missing, not of the two-part form "Bearer <token>", or with an empty token
HeadersRejected == {H_None, H_Empty, H_BearerOnly, H_Basic, H_Lone, H_Three}
\* of the two-part form "Bearer <token>"
HeadersAccepted == {H_Bearer, H_Bearer2}
Headers == HeadersRejected \cup HeadersAccepted \cup {H_Lower}

S_Malformed ==
    <<"n","o","t","-","a","-","v","a","l","i","d","-","o","b","j","e","c","t","i","d">>

\* path parameters: every identifier the store may generate, and a malformed one
ItemIds == {Oid(k) : k \in 1..MaxIds} \cup {S_Malformed}

\* answers of the lookup service
Place(lat, lon) == [latitude |-> lat, longitude |-> lon]
A_Raise == [kind |-> "raise", status |-> 0, places |-> <<>>]
A_Status(code, ps) == [kind |-> "response", status |-> code, places |-> ps]
A_Places(ps) == [kind |-> "response", status |-> 200, places |-> ps]
A_NotAsked == [kind |-> "not_asked", status |-> 0, places |-> <<>>]

AnswersResolved ==
    {A_Places(<<Place(Float(NY_LATITUDE), Float(NY_LONGITUDE))>>),
     A_Places(<<Place(Float(NY_LATITUDE - 1), Float(NY_LONGITUDE + 1))>>)}
\* the call fails; 404 without places; 500 although places are sent; no
\* places; a place without latitude
AnswersUnresolved ==
    {A_Raise,
     A_Status(404, <<>>),
     A_Status(500, <<Place(Float(NY_LATITUDE), Float(NY_LONGITUDE))>>),
     A_Places(<<>>),
     A_Places(<<Place(None, Float(NY_LONGITUDE))>>)}
Answers == AnswersResolved \cup AnswersUnresolved

\* exceptions of the storage backend
F_Refused == [raises |-> TRUE, words |-> <<"connection", "refused">>]
F_NsNotFound == [raises |-> TRUE, words |-> <<"ns", "not", "found">>]
F_ListenerRaised ==
    [raises |-> FALSE, words |-> <<"listener", "failed">>, listener |-> TRUE]
Faults == {NoFault, F_Refused, F_NsNotFound}

CreateBody(name, postcode, users, startDate) ==
    MkMap({<<K_name, name>>, <<K_postcode, postcode>>, <<K_users, users>>,
           <<K_startDate, startDate>>})

\* a body of POST /items at day t that passes every check
GoodCreateBody(t) == CreateBody(N_A, P_NY, U_AB, Date(t + WEEK))

\* bodies of POST /items at day t: the names and user lists; a title; a
\* malformed postcode; a start date one day early; derived fields sent along
CreateBodies(t) ==
    {CreateBody(n, P_NY, u, Date(t + WEEK)) : n \in {N_A, N_B}, u \in {U_A, U_AB}}
    \cup {Merge(MkMap({<<K_title, T_1>>}), GoodCreateBody(t)),
          CreateBody(N_A, P_Short, U_AB, Date(t + WEEK)),
          CreateBody(N_A, P_NY, U_AB, Date(t + WEEK - 1)),
          Merge(CreateBody(N_B, P_NY, U_AB, Date(t + WEEK)),
                MkMap({<<K_latitude, Float(0)>>, <<K_longitude, Float(0)>>,
                       <<K_directionFromNewYork, Str(<<"S", "W">>)>>}))}

\* a body of PATCH /items/{id} that passes the schema and names a field
GoodUpdateBody == MkMap({<<K_title, T_1>>})

\* bodies of PATCH /items/{id} at day t: name and users given or not; a title;
\* a start date in time and one a day early; several fields; only fields
\* that cannot be updated; only nulls
UpdateBodies(t) ==
    {MkMap({<<K_name, n>> : n \in ns} \cup {<<K_users, u>> : u \in us}) :
        ns \in {{}, {N_A}, {N_B}}, us \in {{}, {U_A}, {U_AB}}}
    \cup {GoodUpdateBody,
          MkMap({<<K_startDate, Date(t + WEEK)>>}),
          MkMap({<<K_startDate, Date(t + WEEK - 1)>>}),
          MkMap({<<K_title, T_1>>, <<K_name, N_B>>, <<K_startDate, Date(t + WEEK)>>}),
          MkMap({<<K_postcode, P_Short>>, <<K_latitude, Float(0)>>}),
          MkMap({<<K_name, None>>, <<K_title, None>>})}

\* the bodies sent with header auth: every body with "Bearer t", one body
\* with any other header
SentWith(auth, bodies, one) == IF auth = H_Bearer THEN bodies ELSE {one}

NoRequest ==
    [op |-> "none", auth |-> None, item_id |-> <<>>, body |-> EmptyMap,
     answer |-> A_NotAsked, fault |-> NoFault]

Request(op, auth, item_id, body, answer, fault) ==
    [op |-> op, auth |-> auth, item_id |-> item_id, body |-> body,
     answer |-> answer, fault |-> fault]

NoResponse == Response(0, None, None)

\* no function of src/utils is being applied on its own
NoCall == [fn |-> "none"]

-----------------------------------------------------------------------------
(* The state machine *)

Init ==
    /\ store = EmptyMap
    /\ nextOid = 0
    /\ now = 0
    /\ req = NoRequest
    /\ resp = NoResponse
    /\ emitted = <<>>
    /\ lookups = <<>>
    /\ before = EmptyMap
    /\ call = NoCall
    /\ returned = None
    /\ tasks = <<>>

Idle == req.op = "none"

\* the request r is answered by h
Answer(r, h) ==
    /\ req' = r
    /\ resp' = h.resp
    /\ store' = h.store
    /\ nextOid' = h.nextOid
    /\ emitted' = h.events
    /\ lookups' = h.lookups
    /\ before' = store
    /\ UNCHANGED <<now, call, returned, tasks>>

\* a request the dependency "authenticated" turns away
Rejected(op, auth, item_id, body) ==
    Answer(Request(op, auth, item_id, body, A_NotAsked, NoFault),
           Handled(Unauthorized(auth), store, nextOid, <<>>))

\* POST /items
CreateItem ==
    /\ Idle
    /\ nextOid < MaxIds
    /\ \E auth \in Headers :
       \E body \in SentWith(auth, CreateBodies(now), GoodCreateBody(now)) :
        IF ~Authenticated(auth)
        THEN Rejected("create", auth, <<>>, body)
        ELSE LET asked == /\ ItemCreate(body, now).errors = {}
                          /\ validate_item_data(
                                 convert_keys_to_snake_case(ItemCreate(body, now).dump),
                                 now).ok
             IN  \E answer \in IF asked THEN Answers ELSE {A_NotAsked} :
                 \E fault \in IF asked /\ ~IsNone(fetch_zipcode_data(answer))
                              THEN {NoFault, F_Refused} ELSE {NoFault} :
                    Answer(Request("create", auth, <<>>, body, answer, fault),
                           route_create_item(body, answer, fault, store, nextOid, now))

\* GET /items
GetItems ==
    /\ Idle
    /\ \E auth \in Headers :
        IF ~Authenticated(auth)
        THEN Rejected("list", auth, <<>>, EmptyMap)
        ELSE \E fault \in {NoFault, F_Refused} :
                Answer(Request("list", auth, <<>>, EmptyMap, A_NotAsked, fault),
                       route_get_items(fault, store, nextOid))

\* GET /items/{item_id}
GetItem ==
    /\ Idle
    /\ \E auth \in Headers, item_id \in ItemIds :
        IF ~Authenticated(auth)
        THEN Rejected("get", auth, item_id, EmptyMap)
        ELSE \E fault \in IF ObjectIdIsValid(item_id)
                          THEN {NoFault, F_Refused} ELSE {NoFault} :
                Answer(Request("get", auth, item_id, EmptyMap, A_NotAsked, fault),
                       route_get_item(item_id, fault, store, nextOid))

\* PATCH /items/{item_id}
UpdateItem ==
    /\ Idle
    /\ \E auth \in Headers, item_id \in ItemIds :
       \E body \in SentWith(auth, UpdateBodies(now), GoodUpdateBody) :
        IF ~Authenticated(auth)
        THEN Rejected("update", auth, item_id, body)
        ELSE LET reached == /\ ItemUpdate(body, now).errors = {}
                            /\ \E k \in DOMAIN ItemUpdate(body, now).dump :
                                   ~IsNone(ItemUpdate(body, now).dump[k])
                            /\ ObjectIdIsValid(item_id)
             IN  \E fault \in IF reached THEN {NoFault, F_Refused} ELSE {NoFault} :
                    Answer(Request("update", auth, item_id, body, A_NotAsked, fault),
                           route_update_item(item_id, body, fault, store, nextOid, now))

\* DELETE /items/{item_id}
DeleteItem ==
    /\ Idle
    /\ \E auth \in Headers, item_id \in ItemIds :
        IF ~Authenticated(auth)
        THEN Rejected("delete", auth, item_id, EmptyMap)
        ELSE \E fault \in IF ObjectIdIsValid(item_id) THEN Faults ELSE {NoFault} :
                Answer(Request("delete", auth, item_id, EmptyMap, A_NotAsked, fault),
                       route_delete_item(item_id, fault, store, nextOid))

\* the response is sent, the next request can be taken
Complete ==
    /\ ~Idle
    /\ req' = NoRequest
    /\ resp' = NoResponse
    /\ emitted' = <<>>
    /\ lookups' = <<>>
    /\ before' = store
    /\ UNCHANGED <<store, nextOid, now, call, returned, tasks>>

Next ==
    \/ CreateItem
    \/ GetItems
    \/ GetItem
    \/ UpdateItem
    \/ DeleteItem
    \/ Complete

Spec == Init /\ [][Next]_vars

TypeOK ==
    /\ nextOid \in 0..MaxIds
    /\ now \in Nat
    /\ DOMAIN store \subseteq {Oid(k) : k \in 1..nextOid}
    /\ resp.status \in {0, 200, 201, 400, 401, 404, 422, 500}

-----------------------------------------------------------------------------
(* Properties *)

\* the last request carried a well-formed bearer header and was op
Served(op) == req.op = op /\ req.auth \in HeadersAccepted

\* the last request left the store, the identifiers and the events alone
Untouched == store = before /\ emitted = <<>>

\* the fields of body that a PATCH can change and that are not null
GivenMutable(body) ==
    {k \in {K_name, K_title, K_users, K_startDate} : Given(body, k)}

\* C1: after any sequence of completed create, update and delete requests,
\* every stored item has its name among its users.
C1_NameInUsers ==
    \A id \in DOMAIN store :
        \E i \in 1..Len(store[id].users.list) :
            store[id].users.list[i] = store[id].name

\* an update that replaced the users of a stored item has succeeded
C1_Witness ==
    /\ Served("update")
    /\ resp.status = 200
    /\ K_users \in DOMAIN req.body
    /\ store[req.item_id].users # before[req.item_id].users

\* C2 (as claimed): a create or update whose effective name is not among its
\* effective users never succeeds and is answered with a validation error
\* mapping keyed on name, or on users when only users is updated.
C2_KeyedNameError ==
    LET b == req.body
        old == before[req.item_id]
        name == IF K_name \in DOMAIN b THEN b[K_name] ELSE old.name
        users == IF K_users \in DOMAIN b THEN b[K_users] ELSE old.users
        key == IF K_name \in DOMAIN b THEN K_name ELSE K_users
    IN  /\ ( /\ Served("update")
             /\ ~req.fault.raises
             /\ req.item_id \in DOMAIN before
             /\ GivenMutable(b) \cap {K_name, K_users} # {}
             /\ K_startDate \notin DOMAIN b
             /\ ~PyIn(name, users) )
           => /\ resp.status # 200
              /\ store = before
              /\ resp.detail.t = "dict"
              /\ key \in DOMAIN resp.detail.dict
        /\ ( /\ Served("create")
             /\ ~PyIn(b[K_name], b[K_users]) )
           => /\ resp.status # 201
              /\ store = before
              /\ resp.detail.t = "dict"
              /\ K_name \in DOMAIN resp.detail.dict

\* C3: a create whose body passes validation and whose postcode the lookup
\* resolves succeeds, returns only an identifier that no earlier create
\* returned, and persists the resolved coordinates and their quadrant
\* relative to (40.7128, -74.0060), whatever the body carried for them.
C3_CreateDerives ==
    ( /\ Served("create")
      /\ ItemCreate(req.body, now).errors = {}
      /\ req.answer.kind = "response"
      /\ req.answer.status = 200
      /\ req.answer.places # <<>>
      /\ ~IsNone(req.answer.places[1].latitude)
      /\ ~req.fault.raises )
    => LET place == req.answer.places[1]
           lat == place.latitude.float
           lon == place.longitude.float
           id == resp.body.dict[K_id].str
       IN  /\ resp.status = 201
           /\ DOMAIN resp.body.dict = {K_id}
           /\ \A k \in 1..(nextOid - 1) : id # Oid(k)
           /\ id \notin DOMAIN before
           /\ DOMAIN store = DOMAIN before \cup {id}
           /\ store[id].latitude = place.latitude
           /\ store[id].longitude = place.longitude
           /\ store[id].direction_from_new_york.str[1]
                 = (IF lat >= 407128 THEN "N" ELSE "S")
           /\ store[id].direction_from_new_york.str[2]
                 = (IF lon >= 0 - 740060 THEN "E" ELSE "W")
           /\ Len(store[id].direction_from_new_york.str) = 2

\* a second item was created from a body that carried its own coordinates,
\* at the reference point itself
C3_Witness ==
    /\ Served("create")
    /\ resp.status = 201
    /\ nextOid = 2
    /\ K_latitude \in DOMAIN req.body
    /\ req.answer.places[1].latitude = Float(NY_LATITUDE)
    /\ req.answer.places[1].longitude = Float(NY_LONGITUDE)

\* C4 (as claimed): deleting an identifier that names no stored item is
\* answered 404 and leaves the store and the events alone.
C4_DeleteAbsentIs404 ==
    ( /\ Served("delete")
      /\ ~req.fault.raises
      /\ req.item_id \notin DOMAIN before )
    => resp.status = 404 /\ Untouched

\* C5: reading a malformed identifier and reading a well-formed identifier
\* of no stored item are both answered 404 with the message "Item not found
\* with ID: <id>", never with a format error.
C5_GetAbsentIs404 ==
    ( /\ Served("get")
      /\ req.item_id \notin DOMAIN before )
    => /\ resp.status = 404
       /\ resp.detail.t = "msg"
       /\ resp.detail.msg.w = <<"Item", "not", "found", "with", "ID:">>
       /\ resp.detail.msg.a = req.item_id
       /\ Untouched

\* a malformed identifier was read
C5_Witness ==
    /\ Served("get")
    /\ req.item_id = S_Malformed
    /\ resp.status = 404

\* C6 (as claimed): an update with a field to change, and a delete, of a
\* malformed identifier are answered 404.
C6_MalformedIs404 ==
    ( /\ Served("update") \/ Served("delete")
      /\ Served("update") => GivenMutable(req.body) # {}
      /\ Len(req.item_id) # OID_LEN )
    => resp.status = 404

\* C7: an update whose body names no field among name, title, users and
\* startDate is answered 400 with the error key "_", whatever the identifier;
\* the store is unchanged and no event is emitted.
C7_EmptyUpdateIs400 ==
    ( /\ Served("update")
      /\ GivenMutable(req.body) = {} )
    => /\ resp.status = 400
       /\ resp.detail.t = "dict"
       /\ DOMAIN resp.detail.dict = {<<"_">>}
       /\ resp.detail.dict[<<"_">>].w = <<"No", "valid", "fields", "to", "update">>
       /\ Untouched

\* an update of a stored item that names only nulls was answered
C7_Witness ==
    /\ Served("update")
    /\ req.item_id \in DOMAIN before
    /\ DOMAIN req.body = {K_name, K_title}
    /\ GivenMutable(req.body) = {}
    /\ resp.status = 400

\* C8: when the lookup asked during a create does not resolve the postcode
\* (the call fails, the status is not 200, or there is no place), the create
\* is answered 400 with an error on postcode only, nothing is stored and no
\* event is emitted.
C8_LookupFailureIs400 ==
    ( /\ Served("create")
      /\ \/ req.answer.kind = "raise"
         \/ req.answer.kind = "response" /\ req.answer.status # 200
         \/ req.answer.kind = "response" /\ req.answer.places = <<>> )
    => /\ resp.status = 400
       /\ resp.detail.t = "dict"
       /\ DOMAIN resp.detail.dict = {K_postcode}
       /\ Untouched
       /\ DOMAIN store = DOMAIN before

\* the lookup answered 500 during a create
C8_Witness ==
    /\ Served("create")
    /\ req.answer.kind = "response"
    /\ req.answer.status = 500
    /\ resp.status = 400

\* C9 (as claimed): a fault of the storage backend during a request is
\* answered 500 with a message that does not carry the fault's words.
C9_FaultIs500 ==
    ( /\ req.op # "none"
      /\ req.auth \in HeadersAccepted
      /\ req.fault.raises )
    => /\ resp.status = 500
       /\ resp.detail.t = "msg"
       /\ \A i \in 1..Len(resp.detail.msg.w) :
             \A j \in 1..Len(req.fault.words) :
                resp.detail.msg.w[i] # req.fault.words[j]

\* C10: a request whose Authorization header is missing, not of the two-part
\* form "Bearer <token>" or without token is answered 401 on every route and
\* changes nothing; a request with a two-part "Bearer <token>" header is not
\* answered 401.
C10_BearerRequired ==
    /\ ( req.op # "none" /\ req.auth \in HeadersRejected )
       => resp.status = 401 /\ Untouched /\ DOMAIN store = DOMAIN before
    /\ ( req.op # "none" /\ req.auth \in HeadersAccepted )
       => resp.status # 401

\* a create with the header "Bearer " was turned away
C10_Witness ==
    /\ req.op = "create"
    /\ req.auth = H_BearerOnly
    /\ resp.status = 401

-----------------------------------------------------------------------------
(* The service while the clock advances between requests *)

\* days the clock may advance, and identifiers the store may generate meanwhile
MaxNow == 2
MaxClockIds == 1

\* the lookup service resolves the postcode to the reference point
A_NY == A_Places(<<Place(Float(NY_LATITUDE), Float(NY_LONGITUDE))>>)

\* start dates sent at day t: a week ahead to the day, a day short of it, the
\* day itself, the date a week after day 0; the same with a UTC offset
StartDates(t) ==
    {Date(t + WEEK), Date(t + WEEK - 1), Date(t), Date(WEEK),
     DateAware(t + WEEK), DateAware(t + WEEK - 1), DateAware(WEEK + MaxNow + 1)}

ClockCreateBodies(t) == {CreateBody(N_A, P_NY, U_AB, d) : d \in StartDates(t)}

\* a body of PATCH /items/{id} that names a field to change and fields that
\* cannot be changed
MixedUpdateBody ==
    MkMap({<<K_title, T_1>>, <<K_postcode, P_Short>>, <<K_latitude, Float(0)>>,
           <<K_longitude, Float(0)>>, <<K_directionFromNewYork, Str(<<"S", "W">>)>>,
           <<K_id, Str(Oid(9))>>, <<K_createdAt, Date(MaxNow + 1)>>,
           <<K_updatedAt, Date(0)>>})

ClockUpdateBodies(t) ==
    {MkMap({<<K_startDate, d>>}) : d \in StartDates(t)}
    \cup {GoodUpdateBody, MixedUpdateBody, MkMap({<<K_name, N_B>>}),
          MkMap({<<K_users, U_A>>, <<K_startDate, Date(t + WEEK + 1)>>})}

\* POST /items with a bearer token, the store and the lookup service working
ClockCreate ==
    /\ Idle
    /\ nextOid < MaxClockIds
    /\ \E body \in ClockCreateBodies(now) :
        LET h == route_create_item(body, A_NY, NoFault, store, nextOid, now)
            answer == IF h.lookups # <<>> THEN A_NY ELSE A_NotAsked
        IN  Answer(Request("create", H_Bearer, <<>>, body, answer, NoFault), h)

\* PATCH /items/{item_id} with a bearer token, the store working
ClockUpdate ==
    /\ Idle
    /\ \E k \in 1..MaxClockIds, body \in ClockUpdateBodies(now) :
        Answer(Request("update", H_Bearer, Oid(k), body, A_NotAsked, NoFault),
               route_update_item(Oid(k), body, NoFault, store, nextOid, now))

\* a day passes between two requests
Tick ==
    /\ Idle
    /\ now < MaxNow
    /\ now' = now + 1
    /\ UNCHANGED <<store, nextOid, req, resp, emitted, lookups, before, call, returned,
                   tasks>>

NextClock ==
    \/ ClockCreate
    \/ ClockUpdate
    \/ Tick
    \/ Complete

SpecClock == Init /\ [][NextClock]_vars

\* C11 (as claimed): a create whose startDate is earlier than now + 7 days is
\* answered 400 with a detail mapping that has a key for the start date, and
\* stores nothing; a startDate equal to now + 7 days is accepted.
C11_EarlyStartIs400 ==
    LET start == req.body[K_startDate]
    IN  /\ ( Served("create") /\ start.date < now + WEEK )
           => /\ resp.status = 400
              /\ resp.detail.t = "dict"
              /\ {K_startDate, K_start_date} \cap DOMAIN resp.detail.dict # {}
              /\ store = before
        /\ ( Served("create") /\ start.date = now + WEEK )
           => resp.status = 201

-----------------------------------------------------------------------------
(* The key converters of src/utils/validators.py applied on their own *)

SnakeKeys == {<<"a">>, <<"a","_","b">>, K_start_date, K_direction_from_new_york}
CamelKeys == {<<"a","B">>, K_startDate}

\* values that are neither a mapping nor a sequence
Leaves == {None, Float(0), Float(1), Str(<<"a","_","B">>)}

\* mappings of one key
Inner(keys) == {Dict(MkMap({<<k, l>>})) : k \in keys, l \in {Float(1), Str(<<"a","_","B">>)}}

\* the values of a mapping: leaves; mappings, nested once and twice; sequences
\* of mappings, and sequences with a mapping before, after or inside other
\* values
Values(keys) ==
    Leaves
    \cup Inner(keys)
    \cup {Dict(MkMap({<<k, d>>})) : k \in keys, d \in Inner(keys)}
    \cup {List(<<d>>) : d \in Inner(keys)}
    \cup {List(<<d, e>>) : d, e \in Inner(keys)}
    \cup {List(<<d, l>>) : d \in Inner(keys), l \in Leaves}
    \cup {List(<<l, d>>) : d \in Inner(keys), l \in Leaves}
    \cup {List(<<List(<<d>>)>>) : d \in Inner(keys)}

CasingInputs ==
    {MkMap({<<k, v>>}) : k \in SnakeKeys, v \in Values(SnakeKeys)}
    \cup {MkMap({<<k, v>>}) : k \in CamelKeys, v \in Values(CamelKeys)}
    \cup {MkMap({<<K_start_date, Float(1)>>, <<K_created_at, d>>}) : d \in Inner(SnakeKeys)}

\* a converter is applied to x, then a converter to the result
Converting(x) == [fn |-> "convert_keys", x |-> x, steps |-> <<>>]

InitCasing ==
    /\ store = EmptyMap
    /\ nextOid = 0
    /\ now = 0
    /\ req = NoRequest
    /\ resp = NoResponse
    /\ emitted = <<>>
    /\ lookups = <<>>
    /\ before = EmptyMap
    /\ call \in {Converting(x) : x \in CasingInputs}
    /\ returned = None
    /\ tasks = <<>>

\* the mapping the next converter is applied to
Converted == IF call.steps = <<>> THEN Dict(call.x) ELSE returned

CallConverter(name, result) ==
    /\ call.fn = "convert_keys"
    /\ Len(call.steps) < 2
    /\ ~Raised(Converted)
    /\ returned' = Dict(result)
    /\ call' = [call EXCEPT !.steps = Append(@, name)]
    /\ UNCHANGED <<store, nextOid, now, req, resp, emitted, lookups, before, tasks>>

ToCamel == CallConverter("camel", convert_keys_to_camel_case(Converted.dict))

ToSnake == CallConverter("snake", convert_keys_to_snake_case(Converted.dict))

NextCasing ==
    \/ ToCamel
    \/ ToSnake

SpecCasing == InitCasing /\ [][NextCasing]_vars

\* lower-case words joined by single underscores
UnambiguousSnake(key) ==
    /\ key # <<>>
    /\ \A i \in 1..Len(key) : key[i] \in LowerChars \cup {"_"}
    /\ key[1] # "_"
    /\ key[Len(key)] # "_"
    /\ \A i \in 1..(Len(key) - 1) : ~(key[i] = "_" /\ key[i + 1] = "_")

\* the keys of value and of every mapping inside it, at any depth
RECURSIVE KeysOf(_)
KeysOf(value) ==
    CASE value.t = "dict" ->
            DOMAIN value.dict \cup UNION {KeysOf(value.dict[k]) : k \in DOMAIN value.dict}
      [] value.t = "list" ->
            UNION {KeysOf(value.list[i]) : i \in 1..Len(value.list)}
      [] OTHER -> {}

\* C12 (as claimed): for every mapping x whose keys, nested ones included, are
\* unambiguous snake_case names, converting x to camelCase and back to
\* snake_case returns x.
C12_RoundTrip ==
    ( /\ call.fn = "convert_keys"
      /\ \A k \in KeysOf(Dict(call.x)) : UnambiguousSnake(k) )
    => /\ call.steps = <<"camel">> => ~Raised(returned)
       /\ call.steps = <<"camel", "snake">> => returned = Dict(call.x)

-----------------------------------------------------------------------------
(* Reading *)

\* the camelCase keys of a listed item
ItemResponseKeys ==
    {K_id, K_name, K_postcode, K_latitude, K_longitude, K_directionFromNewYork,
     K_title, K_users, K_startDate, K_createdAt, K_updatedAt}

\* entry is the stored item id with camelCase keys
Lists(entry, id) ==
    /\ entry.t = "dict"
    /\ DOMAIN entry.dict = ItemResponseKeys
    /\ \A k \in DOMAIN entry.dict : \A i \in 1..Len(k) : k[i] # "_"
    /\ entry.dict[K_id] = Str(id)
    /\ entry.dict[K_name] = store[id].name
    /\ entry.dict[K_postcode] = store[id].postcode
    /\ entry.dict[K_title] = store[id].title
    /\ entry.dict[K_users] = store[id].users
    /\ entry.dict[K_startDate] = store[id].start_date
    /\ entry.dict[K_directionFromNewYork] = store[id].direction_from_new_york

\* C13 (as claimed): after any sequence of create, update and delete requests
\* the list request is answered 200 with exactly one camelCase entry for each
\* stored item, and with the empty list when nothing is stored; list and read
\* by id leave the store alone and emit nothing.
C13_ListReturnsStored ==
    /\ Served("list")
       => /\ resp.status = 200
          /\ resp.body.t = "list"
          /\ Len(resp.body.list) = Cardinality(DOMAIN store)
          /\ \A id \in DOMAIN store :
                \E i \in 1..Len(resp.body.list) : Lists(resp.body.list[i], id)
    /\ ( Served("list") \/ Served("get") ) => Untouched

-----------------------------------------------------------------------------
(* Updating *)

\* C14: a successful update sets the fields among name, title, users and
\* startDate that the body gives to the values given, sets updated_at to the
\* moment of the update and leaves every other field of the item, the item's
\* identifier and every other item as they were; other keys of the body are
\* ignored.
C14_UpdateFrame ==
    ( Served("update") /\ resp.status = 200 )
    => LET id == req.item_id
           old == before[id]
           new == store[id]
           b == req.body
       IN  /\ DOMAIN store = DOMAIN before
           /\ \A other \in DOMAIN store \ {id} : store[other] = before[other]
           /\ new.name = (IF Given(b, K_name) THEN b[K_name] ELSE old.name)
           /\ new.title = (IF Given(b, K_title) THEN b[K_title] ELSE old.title)
           /\ new.users = (IF Given(b, K_users) THEN b[K_users] ELSE old.users)
           /\ new.start_date =
                 (IF Given(b, K_startDate) THEN b[K_startDate] ELSE old.start_date)
           /\ new.postcode = old.postcode
           /\ new.latitude = old.latitude
           /\ new.longitude = old.longitude
           /\ new.direction_from_new_york = old.direction_from_new_york
           /\ new.created_at = old.created_at
           /\ new.updated_at = Date(now)

\* an update that also named a postcode, coordinates, an identifier and
\* timestamps has succeeded a day or more after the item was created
C14_Witness ==
    /\ Served("update")
    /\ resp.status = 200
    /\ req.body = MixedUpdateBody
    /\ store[req.item_id].updated_at # before[req.item_id].updated_at
    /\ store[req.item_id].title # before[req.item_id].title

-----------------------------------------------------------------------------
(* Events *)

\* the last request emitted the one event name for item id, after the store
\* had taken the change
EmittedOnce(name, id) ==
    /\ Len(emitted) = 1
    /\ emitted[1].name = name
    /\ emitted[1].item_id = id
    /\ emitted[1].seen = (IF id \in DOMAIN store THEN store[id] ELSE None)

\* C15: a successful create, update or delete emits exactly one event,
\* item_created, item_updated or item_deleted, with the identifier of the item,
\* after the store has taken the change; a request that is not answered with
\* success emits nothing.
C15_OneEventPerChange ==
    /\ ( Served("create") /\ resp.status = 201 )
       => /\ EmittedOnce("item_created", resp.body.dict[K_id].str)
          /\ resp.body.dict[K_id].str \in DOMAIN store \ DOMAIN before
    /\ ( Served("update") /\ resp.status = 200 )
       => EmittedOnce("item_updated", req.item_id)
    /\ ( Served("delete") /\ resp.status = 200 )
       => /\ EmittedOnce("item_deleted", req.item_id)
          /\ req.item_id \in DOMAIN before \ DOMAIN store
    /\ ( req.op # "none" /\ resp.status \notin {200, 201} )
       => emitted = <<>>
    /\ req.op \in {"list", "get"} => emitted = <<>>

\* a delete of an identifier that names no stored item was answered 404 after
\* an item had been created and deleted
C15_Witness ==
    /\ Served("delete")
    /\ resp.status = 404
    /\ nextOid > 0
    /\ req.item_id = Oid(1)

-----------------------------------------------------------------------------
(* calculate_direction applied to coordinates around the reference point *)

\* coordinates lie within MaxSpan ten-thousandths of a degree of New York
MaxSpan == 5

Directing(lat, lon) == [fn |-> "calculate_direction", lat |-> lat, lon |-> lon]

InitDirection ==
    /\ store = EmptyMap
    /\ nextOid = 0
    /\ now = 0
    /\ req = NoRequest
    /\ resp = NoResponse
    /\ emitted = <<>>
    /\ lookups = <<>>
    /\ before = EmptyMap
    /\ call \in {Directing(lat, lon) :
                   lat \in (NY_LATITUDE - MaxSpan)..(NY_LATITUDE + MaxSpan),
                   lon \in (NY_LONGITUDE - MaxSpan)..(NY_LONGITUDE + MaxSpan)}
    /\ returned = None
    /\ tasks = <<>>

CallDirection ==
    /\ call.fn = "calculate_direction"
    /\ returned = None
    /\ returned' = Str(calculate_direction(call.lat, call.lon))
    /\ UNCHANGED <<store, nextOid, now, req, resp, emitted, lookups, before, call,
                   tasks>>

NextDirection == CallDirection

SpecDirection == InitDirection /\ [][NextDirection]_vars

\* C16: the first letter of the code is N exactly when the latitude is at
\* least the reference latitude and S otherwise, the second letter is E exactly
\* when the longitude is at least the reference longitude and W otherwise; the
\* reference point itself is NE and the code is one of NE, NW, SE, SW.
C16_Quadrant ==
    ( call.fn = "calculate_direction" /\ returned # None )
    => LET code == returned.str
       IN  /\ Len(code) = 2
           /\ code[1] \in {"N", "S"}
           /\ code[2] \in {"E", "W"}
           /\ code[1] = "N" <=> call.lat >= NY_LATITUDE
           /\ code[2] = "E" <=> call.lon >= NY_LONGITUDE
           /\ ( call.lat = NY_LATITUDE /\ call.lon = NY_LONGITUDE )
              => code = <<"N", "E">>

\* a point on the reference meridian south of the reference point
C16_Witness ==
    /\ call.fn = "calculate_direction"
    /\ call.lat < NY_LATITUDE
    /\ call.lon = NY_LONGITUDE
    /\ returned = Str(<<"S", "E">>)

-----------------------------------------------------------------------------
(* validate_item_data applied to mappings of its own *)

\* a string of n characters c
Chars(n, c) == [i \in 1..n |-> c]

N_Max == Str(Chars(MAX_NAME, "A"))
N_Long == Str(Chars(MAX_NAME + 1, "A"))
T_Long == Str(Chars(MAX_TITLE + 1, "T"))

\* name: absent, short, of exactly 50 characters, of 51
NameInputs == {{}, {<<K_name, N_A>>}, {<<K_name, N_B>>}, {<<K_name, N_Max>>},
               {<<K_name, N_Long>>}}

PostcodeInputs == {{}, {<<K_postcode, P_NY>>}, {<<K_postcode, P_Short>>}}

\* users: absent, a string, lists with none, one or two over-long elements
UsersInputs ==
    {{}, {<<K_users, N_A>>}, {<<K_users, List(<<>>)>>}, {<<K_users, U_A>>},
     {<<K_users, U_AB>>}, {<<K_users, List(<<N_A, N_Long>>)>>},
     {<<K_users, List(<<N_Long, N_A, N_Long>>)>>}}

\* start_date: absent, exactly a week after t, a day less
StartInputs(t) == {{}, {<<K_start_date, Date(t + WEEK)>>},
                   {<<K_start_date, Date(t + WEEK - 1)>>}}

TitleInputs == {{}, {<<K_title, None>>}, {<<K_title, T_1>>}, {<<K_title, T_Long>>}}

Validating(data) == [fn |-> "validate_item_data", data |-> data]

InitValidation ==
    /\ store = EmptyMap
    /\ nextOid = 0
    /\ now \in 0..MaxNow
    /\ req = NoRequest
    /\ resp = NoResponse
    /\ emitted = <<>>
    /\ lookups = <<>>
    /\ before = EmptyMap
    /\ call \in {Validating(MkMap(n \cup p \cup u \cup s \cup ti)) :
                   n \in NameInputs, p \in PostcodeInputs, u \in UsersInputs,
                   s \in StartInputs(now), ti \in TitleInputs}
    /\ returned = None
    /\ tasks = <<>>

CallValidation ==
    /\ call.fn = "validate_item_data"
    /\ returned = None
    /\ returned' = validate_item_data(call.data, now)
    /\ UNCHANGED <<store, nextOid, now, req, resp, emitted, lookups, before, call,
                   tasks>>

NextValidation == CallValidation

SpecValidation == InitValidation /\ [][NextValidation]_vars

\* the positions of the users list (from 1) whose element is over-long
OverLong(data) ==
    IF K_users \in DOMAIN data /\ data[K_users].t = "list"
    THEN {i \in 1..Len(data[K_users].list) : Len(data[K_users].list[i].str) > 50}
    ELSE {}

-----------------------------------------------------------------------------
(* Converting nested sequences *)

\* value with every key rewritten to snake_case, at every depth and at every
\* position of every sequence; nothing else changed
RECURSIVE EveryKeySnake(_)
EveryKeySnake(value) ==
    CASE value.t = "dict" ->
            Dict([k \in {SnakeKey(j) : j \in DOMAIN value.dict} |->
                    EveryKeySnake(value.dict[CHOOSE j \in DOMAIN value.dict :
                                                SnakeKey(j) = k])])
      [] value.t = "list" ->
            List([i \in 1..Len(value.list) |-> EveryKeySnake(value.list[i])])
      [] OTHER -> value

\* the same towards camelCase
RECURSIVE EveryKeyCamel(_)
EveryKeyCamel(value) ==
    CASE value.t = "dict" ->
            Dict([k \in {CamelKey(j) : j \in DOMAIN value.dict} |->
                    EveryKeyCamel(value.dict[CHOOSE j \in DOMAIN value.dict :
                                                CamelKey(j) = k])])
      [] value.t = "list" ->
            List([i \in 1..Len(value.list) |-> EveryKeyCamel(value.list[i])])
      [] OTHER -> value

\* C18 (as claimed): each converter rewrites every key of the mapping and of
\* every mapping nested in it, a mapping at any position of a sequence
\* included, and leaves the leaves and the order of the elements as they were.
C18_EveryKeyRewritten ==
    ( call.fn = "convert_keys" /\ Len(call.steps) = 1 )
    => returned = (IF call.steps[1] = "snake" THEN EveryKeySnake(Dict(call.x))
                   ELSE EveryKeyCamel(Dict(call.x)))

-----------------------------------------------------------------------------
(* The start date of an update *)

\* the response names the start date among its errors
ErrorOnStartDate ==
    \/ resp.detail.t = "schema" /\ K_startDate \in resp.detail.locs
    \/ /\ resp.detail.t = "dict"
       /\ {K_startDate, K_start_date} \cap DOMAIN resp.detail.dict # {}

\* C19 (as claimed): an update whose startDate is earlier than the moment of
\* the update + 7 days is rejected with an error on the start date and leaves
\* the item as it was, also when the item was created with that startDate; an
\* update without startDate is never rejected for the stored start date.
C19_StartCheckedAtUpdate ==
    /\ ( /\ Served("update")
         /\ Given(req.body, K_startDate)
         /\ req.body[K_startDate].date < now + WEEK )
       => /\ resp.status \in 400..499
          /\ ErrorOnStartDate
          /\ store = before
    /\ ( Served("update") /\ ~Given(req.body, K_startDate) )
       => ~ErrorOnStartDate

-----------------------------------------------------------------------------
(* Outbound lookups *)

\* the body of a create passes the schema and validate_item_data
PassesValidation(body) ==
    LET item == ItemCreate(body, now)
    IN  /\ ~item.raises
        /\ item.errors = {}
        /\ validate_item_data(convert_keys_to_snake_case(body), now).ok

\* C20: a create issues exactly one lookup, of its postcode, when its payload
\* passes validation, whether the lookup resolves the postcode or not, and
\* none when validation fails or the request is not authenticated; update,
\* delete and read requests issue none.
C20_OneLookupPerCreate ==
    /\ Len(lookups) <= 1
    /\ ( req.op = "create" /\ Authenticated(req.auth) /\ PassesValidation(req.body) )
       => lookups = <<req.body[K_postcode]>>
    /\ ( req.op = "create" /\ ~PassesValidation(req.body) ) => lookups = <<>>
    /\ ( req.op = "create" /\ ~Authenticated(req.auth) ) => lookups = <<>>
    /\ req.op # "create" => lookups = <<>>

\* a create whose lookup resolved nothing was answered 400 after one lookup
C20_Witness ==
    /\ Served("create")
    /\ PassesValidation(req.body)
    /\ req.answer \in AnswersUnresolved
    /\ resp.status = 400
    /\ Len(lookups) = 1

-----------------------------------------------------------------------------
(* Updates that are refused *)

\* the update was refused because the item was not found, the identifier is
\* malformed, the name is not among the users, or the start date is too early
UpdateRefused ==
    /\ req.op = "update"
    /\ \/ resp.status = 404
       \/ /\ resp.status = 400
          /\ resp.detail.t = "dict"
          /\ {K_id, K_name, K_users, K_start_date} \cap DOMAIN resp.detail.dict # {}
       \/ resp.status = 422 /\ ErrorOnStartDate

-----------------------------------------------------------------------------
(* Creation with listeners of item_created that may raise *)

\* the listeners registered in routers/items/events.py log the event; any
\* function can be registered with register_listener, and emitter.emit calls
\* it inside the try block of create_item, after item.save()
ListenerFaults == {NoFault, F_Refused, F_ListenerRaised}

\* POST /items with a bearer token
ListenerCreate ==
    /\ Idle
    /\ nextOid < MaxIds
    /\ \E body \in ClockCreateBodies(now), asked \in {A_NY, A_Places(<<>>)},
          fault \in ListenerFaults :
        LET h == route_create_item(body, asked, fault, store, nextOid, now)
            answer == IF h.lookups # <<>> THEN asked ELSE A_NotAsked
        IN  Answer(Request("create", H_Bearer, <<>>, body, answer, fault), h)

NextListener ==
    \/ ListenerCreate
    \/ Tick
    \/ Complete

SpecListener == Init /\ [][NextListener]_vars

\* C23 (as claimed): whenever create reports failure to its caller, whatever
\* the cause, a failure raised while emitting item_created included, the
\* store holds what it held before the request.
C23_FailedCreateStoresNothing ==
    (req.op = "create" /\ resp.status = 400) => store = before

-----------------------------------------------------------------------------
(* Requests handled side by side *)

\* The handlers of POST and PATCH are coroutines of the one event loop: a
\* coroutine runs alone until it awaits. create_item awaits the lookup;
\* update_item awaits nothing. The handlers of GET and DELETE are plain
\* functions, which run in threads of the pool beside the loop, so that their
\* store operations fall between those of any other request.

\* requests in flight at a time
MaxTasks == 2

Task(op, item_id, body) ==
    [op |-> op, item_id |-> item_id, body |-> body,
     pc |-> "start",        \* "start", "run", "lookup", "read", "done"
     read |-> None,         \* what first() returned to it
     began |-> {},          \* the creates that awaited a lookup when it began
     status |-> 0]

\* the handlers declared "async def"
Coroutines == {"create", "update"}

\* the creates awaiting their lookup
Suspended ==
    {j \in 1..Len(tasks) : tasks[j].op = "create" /\ tasks[j].pc = "lookup"}

\* the coroutines the loop has started and that have neither returned nor
\* reached an await
Running ==
    {j \in 1..Len(tasks) : tasks[j].op \in Coroutines /\ tasks[j].pc \in {"run", "read"}}

\* the loop is also held by a create that waits for its lookup: a lookup
\* made with a blocking client
LoopFree_HeldByLookup == Running = {} /\ Suspended = {}

\* the loop runs no coroutine: "await client.get(...)" gave it back
LoopFree == Running = {}

\* response_model: a document without name does not serialize as ItemResponse
\* (or as a list of them) and the request is answered 500
response_model(h) ==
    LET incomplete(d) == IsNone(d.dict[K_name])
    IN  IF h.resp.status # 200 THEN h
        ELSE IF h.resp.body.t = "dict" /\ incomplete(h.resp.body)
        THEN [h EXCEPT !.resp = ServerError]
        ELSE IF /\ h.resp.body.t = "list"
                /\ \E k \in 1..Len(h.resp.body.list) : incomplete(h.resp.body.list[k])
        THEN [h EXCEPT !.resp = ServerError]
        ELSE h

\* one item is stored: it was created alone, before the others arrive
InitConcurrent ==
    /\ store = create_item(GoodCreateBody(0), A_NY, NoFault, EmptyMap, 0, 0).store
    /\ nextOid = 1
    /\ now = 0
    /\ req = NoRequest
    /\ resp = NoResponse
    /\ emitted = <<>>
    /\ lookups = <<>>
    /\ before = EmptyMap
    /\ call = NoCall
    /\ returned = None
    /\ tasks = <<>>

ConcurrentUpdateBodies ==
    {MkMap({<<K_name, N_B>>}), MkMap({<<K_users, U_A>>}), GoodUpdateBody,
     MkMap({<<K_name, N_B>>, <<K_users, U_A>>})}

ConcurrentCreateBodies == {GoodCreateBody(0), CreateBody(N_B, P_NY, U_A, Date(WEEK))}

\* a request with a bearer token arrives
Arrive ==
    /\ Len(tasks) < MaxTasks
    /\ \E task \in {Task("create", <<>>, b) : b \in ConcurrentCreateBodies}
                   \cup {Task("update", Oid(1), b) : b \in ConcurrentUpdateBodies}
                   \cup {Task("delete", Oid(1), EmptyMap), Task("get", Oid(1), EmptyMap),
                         Task("list", <<>>, EmptyMap)} :
        tasks' = Append(tasks, task)
    /\ UNCHANGED <<store, nextOid, now, req, resp, emitted, lookups, before, call,
                   returned>>

\* the handler of request i is started: a coroutine by the loop, when it runs
\* no other, a plain function by a thread of the pool
Dispatch(i) ==
    /\ tasks[i].pc = "start"
    /\ tasks[i].op \in Coroutines => LoopFree
    /\ tasks' = [tasks EXCEPT ![i].pc = "run", ![i].began = Suspended]
    /\ UNCHANGED <<store, nextOid, now, req, resp, emitted, lookups, before, call,
                   returned>>

\* task i is answered by h
Finish(i, h) ==
    /\ tasks' = [tasks EXCEPT ![i].pc = "done", ![i].status = h.resp.status]
    /\ store' = h.store
    /\ nextOid' = h.nextOid
    /\ emitted' = emitted \o h.events
    /\ UNCHANGED <<now, req, resp, lookups, before, call, returned>>

\* task i has called first() and goes on with what it returned
Read(i) ==
    /\ tasks' = [tasks EXCEPT ![i].pc = "read",
                              ![i].read = First(store, tasks[i].item_id)]
    /\ UNCHANGED <<store, nextOid, now, req, resp, emitted, lookups, before, call,
                   returned>>

\* POST /items up to the await of the lookup
CreateBegin(i) ==
    /\ tasks[i].op = "create"
    /\ tasks[i].pc = "run"
    /\ LET h == route_create_item(tasks[i].body, A_NotAsked, NoFault, store, nextOid, now)
       IN  IF h.lookups = <<>>
           THEN Finish(i, h)
           ELSE /\ tasks' = [tasks EXCEPT ![i].pc = "lookup"]
                /\ lookups' = lookups \o h.lookups
                /\ UNCHANGED <<store, nextOid, now, req, resp, emitted, before, call,
                               returned>>

\* POST /items from the moment the lookup service has answered
CreateResume(i) ==
    /\ tasks[i].op = "create"
    /\ tasks[i].pc = "lookup"
    /\ LoopFree
    /\ \E answer \in {A_NY, A_Places(<<>>)} :
        Finish(i, route_create_item(tasks[i].body, answer, NoFault, store, nextOid, now))

\* the body passes the schema, names a field and the identifier is well-formed:
\* update_item calls first()
UpdateReads(item_id, body, t) ==
    LET item == ItemUpdate(body, t)
    IN  /\ ~item.raises
        /\ item.errors = {}
        /\ DOMAIN UpdateData(item.dump) # {}
        /\ ObjectIdIsValid(item_id)

\* PATCH /items/{item_id} up to first()
UpdateBegin(i) ==
    /\ tasks[i].op = "update"
    /\ tasks[i].pc = "run"
    /\ IF UpdateReads(tasks[i].item_id, tasks[i].body, now)
          /\ tasks[i].item_id \in DOMAIN store
       THEN Read(i)
       ELSE Finish(i, route_update_item(tasks[i].item_id, tasks[i].body, NoFault,
                                        store, nextOid, now))

\* PATCH /items/{item_id} from first() on: the checks and the save
UpdateEnd(i) ==
    /\ tasks[i].op = "update"
    /\ tasks[i].pc = "read"
    /\ LET t == tasks[i]
       IN  Finish(i, route_update_item_answer(
                         t.item_id, t.body,
                         update_item_read(t.item_id, t.read,
                                          UpdateData(ItemUpdate(t.body, now).dump),
                                          NoFault, store, nextOid, now),
                         store, nextOid, now))

\* DELETE /items/{item_id} up to first()
DeleteBegin(i) ==
    /\ tasks[i].op = "delete"
    /\ tasks[i].pc = "run"
    /\ IF ObjectIdIsValid(tasks[i].item_id) /\ tasks[i].item_id \in DOMAIN store
       THEN Read(i)
       ELSE Finish(i, route_delete_item(tasks[i].item_id, NoFault, store, nextOid))

\* DELETE /items/{item_id} from first() on: item.delete()
DeleteEnd(i) ==
    /\ tasks[i].op = "delete"
    /\ tasks[i].pc = "read"
    /\ Finish(i, route_delete_item_answer(
                     tasks[i].item_id,
                     delete_item_read(tasks[i].item_id, tasks[i].read, NoFault,
                                      store, nextOid)))

\* GET /items/{item_id}
GetRun(i) ==
    /\ tasks[i].op = "get"
    /\ tasks[i].pc = "run"
    /\ Finish(i, response_model(route_get_item(tasks[i].item_id, NoFault, store, nextOid)))

\* GET /items
ListRun(i) ==
    /\ tasks[i].op = "list"
    /\ tasks[i].pc = "run"
    /\ Finish(i, response_model(route_get_items(NoFault, store, nextOid)))

NextConcurrent ==
    \/ Arrive
    \/ \E i \in 1..Len(tasks) : Dispatch(i)
    \/ \E i \in 1..Len(tasks) : CreateBegin(i)
    \/ \E i \in 1..Len(tasks) : CreateResume(i)
    \/ \E i \in 1..Len(tasks) : UpdateBegin(i)
    \/ \E i \in 1..Len(tasks) : UpdateEnd(i)
    \/ \E i \in 1..Len(tasks) : DeleteBegin(i)
    \/ \E i \in 1..Len(tasks) : DeleteEnd(i)
    \/ \E i \in 1..Len(tasks) : GetRun(i)
    \/ \E i \in 1..Len(tasks) : ListRun(i)

SpecConcurrent == InitConcurrent /\ [][NextConcurrent]_vars

\* C21 (as claimed): in every store state reached while requests are handled
\* side by side, two updates of one item among them, the name of every stored
\* item is an element of its users.
C21_NameInUsersConcurrently ==
    \A id \in DOMAIN store : PyIn(store[id].name, store[id].users)

\* C22: whenever creates wait for their lookup and the loop runs no coroutine,
\* every request that has arrived and was not yet started can be started: the
\* loop is not held by a create that waits, however long the lookup takes.
C22_LookupBlocksOnlyItsCreate ==
    \A k \in 1..Len(tasks) :
        (Suspended # {} /\ Running = {} /\ tasks[k].pc = "start")
        => ENABLED Dispatch(k)

\* a create still waits for its lookup; an update that was started after the
\* create had begun to wait has been answered
C22_Witness ==
    /\ Len(tasks) = 2
    /\ tasks[1].op = "create" /\ tasks[1].pc = "lookup"
    /\ tasks[2].op = "update" /\ tasks[2].pc = "done"
    /\ tasks[2].status = 200 /\ tasks[2].began = {1}

\* C25 (as claimed): once a delete of an item has succeeded and an update of
\* the same item has been answered, the delete having fallen between the first()
\* and the save() of the update or after them, the item is not in the store
\* and GET /items/{item_id} answers 404.
C25_UpdateNeverRecreates ==
    \A u, d \in 1..Len(tasks) :
        ( /\ tasks[u].op = "update" /\ tasks[u].pc = "done"
          /\ tasks[d].op = "delete" /\ tasks[d].pc = "done"
          /\ tasks[d].status = 200
          /\ tasks[u].item_id = tasks[d].item_id )
        => /\ tasks[d].item_id \notin DOMAIN store
           /\ response_model(route_get_item(tasks[d].item_id, NoFault, store,
                                            nextOid)).resp.status = 404

====
